---------------------------- MODULE Spec2Model ----------------------------
(***************************************************************************)
(* A model of the bitmap crate: bitmap slices (views) over a borrowed      *)
(* buffer of storage words, their checked constructor, bit addressing,     *)
(* run search, masked range mutation and splitting.                        *)
(*                                                                         *)
(* A storage word is a number in 0 .. 2^BIT_COUNT - 1 whose bit i is the   *)
(* coefficient of 2^i.  The backing buffer is a function from slot indices *)
(* 0 .. NumWords-1 to words; a pointer into it is a slot index, and a      *)
(* pointer outside 0 .. NumWords-1 is outside the allocation.              *)
(***************************************************************************)
EXTENDS Integers, Sequences, FiniteSets, TLC

(***************************************************************************)
(* Bounds of the model.                                                    *)
(***************************************************************************)
\* Width in bits of a storage word (BitStore::BIT_COUNT of the modelled word).
BIT_COUNT == 3
\* Width in bits of the modelled usize.
UsizeBits == 6
\* Largest finite maximum_run_length passed to a capped query.
MaxCap == 2
\* Largest view split into two mutable halves that are then mutated.
MaxSplitBits == 4
\* Longest chain of views derived one from the other.
MaxDerive == 2
\* Most next() calls made on an iterator after it has returned None.
MaxAfterNone == 2

\* Number of words in the backing buffer (the buffers of the crate's tests).
NumWords == 3

VARIABLES
    buffer,     \* the backing buffer: slot index -> word
    pre,        \* the backing buffer as it was before the last operation
    view,       \* the view under test (NoView before construction)
    halves,     \* the views returned by the last split or subslice (<<>> if none)
    op          \* the last operation called, its arguments and its outcome

vars == <<buffer, pre, view, halves, op>>

(***************************************************************************)
(* Machine integers.                                                       *)
(***************************************************************************)
Pow2(n) == 2 ^ n

USIZE_MAX == Pow2(UsizeBits) - 1

\* Wrapping (release build) usize arithmetic.
Wrap(x) == ((x % (USIZE_MAX + 1)) + (USIZE_MAX + 1)) % (USIZE_MAX + 1)

Overflows(x) == x < 0 \/ x > USIZE_MAX

Min(a, b) == IF a <= b THEN a ELSE b

\* The two build profiles: arithmetic overflow panics under "debug" and wraps
\* under "release".
Builds == {"debug", "release"}

(***************************************************************************)
(* BitStore: the storage word capability.                                  *)
(***************************************************************************)
ZERO == 0

MAX == Pow2(BIT_COUNT) - 1

Words == 0 .. MAX

Bit(w, i) == (w \div Pow2(i)) % 2

RECURSIVE BitAndN(_, _, _)
BitAndN(a, b, n) ==
    IF n = 0 THEN 0
    ELSE (a % 2) * (b % 2) + 2 * BitAndN(a \div 2, b \div 2, n - 1)

BitAnd(a, b) == BitAndN(a, b, BIT_COUNT)

BitOr(a, b) == a + b - BitAnd(a, b)

BitXor(a, b) == a + b - 2 * BitAnd(a, b)

BitNot(a) == MAX - a

\* 1 << bit_index
create_bit_mask(bit_index) == Pow2(bit_index) % Pow2(BIT_COUNT)

\* if bit_count == BIT_COUNT { MAX } else { ((1 << bit_count) - 1) << start_bit }
\* A range mask that is not shifted to its first bit.
create_range_mask_unshifted(start_bit, bit_count) ==
    IF bit_count = BIT_COUNT THEN MAX
    ELSE (Pow2(bit_count) - 1) % Pow2(BIT_COUNT)

create_range_mask(start_bit, bit_count) ==
    IF bit_count = BIT_COUNT THEN MAX
    ELSE ((Pow2(bit_count) - 1) * Pow2(start_bit)) % Pow2(BIT_COUNT)

RECURSIVE trailing_zeros_from(_, _)
trailing_zeros_from(w, n) ==
    IF n = BIT_COUNT THEN BIT_COUNT
    ELSE IF w % 2 = 1 THEN n
    ELSE trailing_zeros_from(w \div 2, n + 1)

\* Variant: the lowest bit is always reported as the first one set.
trailing_zeros_always_zero(w) == 0

trailing_zeros(w) == trailing_zeros_from(w, 0)

\* Variant: an exact quotient is rounded up to the next one as well.
div_ceil_past_exact(lhs, rhs) ==
    lhs \div rhs + 1

div_ceil(lhs, rhs) ==
    IF (lhs % rhs) # 0 THEN (lhs \div rhs) + 1 ELSE lhs \div rhs

(***************************************************************************)
(* Range<usize>.                                                           *)
(***************************************************************************)
range_is_empty(start, end) == ~(start < end)

range_len(start, end) == IF start < end THEN end - start ELSE 0


(***************************************************************************)
(* BitmapSliceImpl: a view is its buffer_address (a slot index of the      *)
(* backing buffer), its bit_count, its first_bit_offset and its static     *)
(* mutability.                                                             *)
(***************************************************************************)
View(addr, first_bit_offset, bit_count, mutable) ==
    [addr |-> addr, first_bit_offset |-> first_bit_offset,
     bit_count |-> bit_count, mutable |-> mutable]

NoView == View(0, 0, 0, FALSE)

Slots == 0 .. NumWords - 1

Buffers == [Slots -> Words]

size(v) == v.bit_count

\* Whether slot `slot` of view v lies inside the backing allocation.
InBuffer(v, slot) == (v.addr + slot) \in Slots

\* A translation that does not check the index against the view's size.
translate_bit_index_unchecked(v, bit_index) ==
    [fault |-> "none",
     slot |-> (bit_index + v.first_bit_offset) \div BIT_COUNT,
     offset |-> (bit_index + v.first_bit_offset) % BIT_COUNT]

\* A bounds panic on bit_index >= size, else (slot, offset).
\* Variant: the offset is not reduced to the word and the slot is not advanced.
translate_bit_index_unreduced(v, bit_index) ==
    IF bit_index >= size(v) THEN [fault |-> "panic", slot |-> 0, offset |-> 0]
    ELSE [fault |-> "none", slot |-> 0,
          offset |-> bit_index + v.first_bit_offset]

translate_bit_index(v, bit_index) ==
    IF bit_index >= size(v)
    THEN [fault |-> "panic", slot |-> 0, offset |-> 0]
    ELSE LET real_bit_index == bit_index + v.first_bit_offset
         IN  [fault |-> "none",
              slot |-> real_bit_index \div BIT_COUNT,
              offset |-> real_bit_index % BIT_COUNT]

\* Option<usize> together with how the call ended: "none" (returned),
\* "panic", or "oob" (a word outside the backing allocation was read).
Returned(some, val) == [fault |-> "none", some |-> some, val |-> val]

Faulted(kind) == [fault |-> kind, some |-> FALSE, val |-> 0]

\* The scan loop of find_next_in_range, from current_slot on.
RECURSIVE find_scan(_, _, _, _, _, _, _, _)
find_scan(v, buf, CLEAR_BIT, current_slot, starting_slot, starting_offset, ending_slot, ending_bit) ==
    IF ~(current_slot < ending_slot) THEN Returned(FALSE, 0)
    ELSE IF ~InBuffer(v, current_slot) THEN Faulted("oob")
    ELSE
      LET read == buf[v.addr + current_slot]
          mask == create_range_mask(0, starting_offset)
          first_masked ==
              IF current_slot = starting_slot
              THEN IF CLEAR_BIT THEN BitOr(read, mask)
                   ELSE BitAnd(read, BitNot(mask))
              ELSE read
          current_bits ==
              IF CLEAR_BIT THEN BitNot(first_masked) ELSE first_masked
      IN  IF current_bits # ZERO
          THEN LET first_matching_bit ==
                       current_slot * BIT_COUNT + trailing_zeros(current_bits)
                           - v.first_bit_offset
               IN  IF first_matching_bit < ending_bit
                   THEN Returned(TRUE, first_matching_bit)
                   ELSE Returned(FALSE, 0)
          ELSE find_scan(v, buf, CLEAR_BIT, current_slot + 1, starting_slot,
                         starting_offset, ending_slot, ending_bit)

\* Variant: the bits below range.start in the first word are not masked off.
find_next_in_range_unmasked(v, buf, CLEAR_BIT, start, end) ==
    IF range_is_empty(start, end) THEN Returned(FALSE, 0)
    ELSE IF (end - start) > size(v) THEN Faulted("panic")
    ELSE IF translate_bit_index(v, start).fault # "none" THEN Faulted("panic")
    ELSE find_scan(v, buf, CLEAR_BIT, translate_bit_index(v, start).slot,
                   translate_bit_index(v, start).slot, 0,
                   div_ceil(end + v.first_bit_offset, BIT_COUNT),
                   end + v.first_bit_offset)

find_next_in_range(v, buf, CLEAR_BIT, start, end) ==
    IF range_is_empty(start, end) THEN Returned(FALSE, 0)
    ELSE IF (end - start) > size(v) THEN Faulted("panic")
    ELSE
      LET t == translate_bit_index(v, start)
          ending_bit == end + v.first_bit_offset
          ending_slot == div_ceil(ending_bit, BIT_COUNT)
      IN  IF t.fault # "none" THEN Faulted("panic")
          ELSE find_scan(v, buf, CLEAR_BIT, t.slot, t.slot, t.offset,
                         ending_slot, ending_bit)

find_next_set_from(v, buf, starting_bit) ==
    find_next_in_range(v, buf, FALSE, starting_bit, size(v))

find_next_clear_from(v, buf, starting_bit) ==
    find_next_in_range(v, buf, TRUE, starting_bit, size(v))

\* Option<(usize, usize)> together with how the call ended.
ReturnedRun(some, start, len) ==
    [fault |-> "none", some |-> some, start |-> start, len |-> len]

FaultedRun(kind) == [fault |-> kind, some |-> FALSE, start |-> 0, len |-> 0]

\* The closure the capped range queries map over the first matching bit.
capped_run_from(v, buf, CLEAR_BIT, first_bit, maximum_run_length, build) ==
    LET remaining == size(v) - first_bit
        capped == Min(maximum_run_length, Wrap(remaining))
        bound == first_bit + capped
        next == find_next_in_range(v, buf, ~CLEAR_BIT,
                                   Wrap(first_bit + 1), Wrap(bound))
        next_bit == IF next.some THEN next.val ELSE Wrap(bound)
        run == next_bit - first_bit
    IN  IF build = "debug"
           /\ (Overflows(remaining) \/ Overflows(first_bit + 1)
                  \/ Overflows(bound))
        THEN FaultedRun("overflow")
        ELSE IF next.fault # "none" THEN FaultedRun(next.fault)
        ELSE IF build = "debug" /\ Overflows(run)
        THEN FaultedRun("overflow")
        ELSE ReturnedRun(TRUE, first_bit, Wrap(run))

\* find_next_set_range_from_capped (CLEAR_BIT = FALSE) and
\* find_next_clear_range_from_capped (CLEAR_BIT = TRUE); the two bodies differ
\* only in the polarities they pass to find_next_in_range.  An arithmetic
\* overflow ends the call with fault "overflow" in a debug build and wraps in
\* a release build.
find_next_range_from_capped(v, buf, CLEAR_BIT, starting_bit, maximum_run_length, build) ==
    LET first == find_next_in_range(v, buf, CLEAR_BIT, starting_bit, size(v))
    IN  IF first.fault # "none" THEN FaultedRun(first.fault)
        ELSE IF ~first.some THEN ReturnedRun(FALSE, 0, 0)
        ELSE \* .map(|first_bit| ..): first_bit is bound to the value found
             CHOOSE run \in {capped_run_from(v, buf, CLEAR_BIT, first_bit,
                                             maximum_run_length, build) :
                                 first_bit \in {first.val}} : TRUE

find_next_set_range_from_capped(v, buf, starting_bit, maximum_run_length, build) ==
    find_next_range_from_capped(v, buf, FALSE, starting_bit,
                                maximum_run_length, build)

find_next_clear_range_from_capped(v, buf, starting_bit, maximum_run_length, build) ==
    find_next_range_from_capped(v, buf, TRUE, starting_bit,
                                maximum_run_length, build)

find_next_set_range_from(v, buf, starting_bit, build) ==
    find_next_set_range_from_capped(v, buf, starting_bit, USIZE_MAX, build)

find_next_clear_range_from(v, buf, starting_bit, build) ==
    find_next_clear_range_from_capped(v, buf, starting_bit, USIZE_MAX, build)

\* get_bit: a bounds panic, a read outside the allocation, or the bit.
get_bit(v, buf, bit_index) ==
    LET t == translate_bit_index(v, bit_index)
    IN  IF t.fault # "none" THEN [fault |-> "panic", bit |-> FALSE]
        ELSE IF ~InBuffer(v, t.slot) THEN [fault |-> "oob", bit |-> FALSE]
        ELSE [fault |-> "none",
              bit |-> BitAnd(buf[v.addr + t.slot], create_bit_mask(t.offset)) # ZERO]

(***************************************************************************)
(* Mutation through a Mut view: BitmapSliceOperation::apply, modify_bit    *)
(* and modify_bit_range.  A call ends with fault "none", "panic" or "oob"  *)
(* (a word outside the backing allocation was written) and leaves buf.     *)
(***************************************************************************)
Operations == {"Clear", "Set", "Toggle"}

\* An apply whose Toggle clears the masked bits.
apply_toggle_clears(operation, target, mask) ==
    CASE operation = "Clear" -> BitAnd(target, BitNot(mask))
      [] operation = "Set" -> BitOr(target, mask)
      [] operation = "Toggle" -> BitAnd(target, BitNot(mask))

\* An apply whose Toggle sets the masked bits.
apply_toggle_sets(operation, target, mask) ==
    CASE operation = "Clear" -> BitAnd(target, BitNot(mask))
      [] operation = "Set" -> BitOr(target, mask)
      [] operation = "Toggle" -> BitOr(target, mask)

apply(operation, target, mask) ==
    CASE operation = "Clear" -> BitAnd(target, BitNot(mask))
      [] operation = "Set" -> BitOr(target, mask)
      [] operation = "Toggle" -> BitXor(target, mask)

\* operation.apply(buffer_address.add(slot), mask)
apply_at(v, buf, slot, operation, mask) ==
    IF ~InBuffer(v, slot) THEN [fault |-> "oob", buf |-> buf]
    ELSE [fault |-> "none",
          buf |-> [buf EXCEPT ![v.addr + slot] = apply(operation, @, mask)]]

modify_bit(v, buf, bit_index, operation) ==
    LET t == translate_bit_index(v, bit_index)
    IN  IF t.fault # "none" THEN [fault |-> "panic", buf |-> buf]
        ELSE apply_at(v, buf, t.slot, operation, create_bit_mask(t.offset))

\* The loop of modify_bit_range and the masked write that follows it.
RECURSIVE modify_range_loop(_, _, _, _, _, _, _, _)
modify_range_loop(v, buf, slot, current_offset, current_count, current_mask, remaining, operation) ==
    IF remaining >= current_count
    THEN LET w == apply_at(v, buf, slot, operation, current_mask)
         IN  IF w.fault # "none" THEN w
             ELSE modify_range_loop(v, w.buf, slot + 1, 0, BIT_COUNT, MAX,
                                    remaining - current_count, operation)
    ELSE IF remaining # 0
    THEN apply_at(v, buf, slot, operation,
                  create_range_mask(current_offset, remaining))
    ELSE [fault |-> "none", buf |-> buf]

\* A range mutation that checks the end of the range after writing the part
\* of it that lies inside the view.
modify_bit_range_checks_end_late(v, buf, start, end, operation) ==
    IF range_is_empty(start, end) THEN [fault |-> "none", buf |-> buf]
    ELSE IF start >= size(v) THEN [fault |-> "panic", buf |-> buf]
    ELSE
      LET t == translate_bit_index(v, start)
          w == modify_range_loop(v, buf, t.slot, t.offset,
                                 BIT_COUNT - t.offset,
                                 create_range_mask(t.offset, BIT_COUNT - t.offset),
                                 Min(end, size(v)) - start, operation)
      IN  IF end > size(v) THEN [fault |-> "panic", buf |-> w.buf] ELSE w

modify_bit_range(v, buf, start, end, operation) ==
    IF range_is_empty(start, end) THEN [fault |-> "none", buf |-> buf]
    ELSE IF (start >= size(v)) \/ (end > size(v))
    THEN [fault |-> "panic", buf |-> buf]
    ELSE
      LET t == translate_bit_index(v, start)
          current_offset == t.offset
          current_count == BIT_COUNT - current_offset
          current_mask == create_range_mask(current_offset, current_count)
      IN  modify_range_loop(v, buf, t.slot, current_offset, current_count,
                            current_mask, range_len(start, end), operation)

(***************************************************************************)
(* The checked constructor, BitmapSliceImpl::<Const>::new and ::<Mut>::new *)
(* (the two bodies are the same), on a buffer of buffer_len words.         *)
(***************************************************************************)
\* A constructor that does not narrow the buffer to the range's first word.
new_not_narrowed(buffer_len, start, end, mutable) ==
    IF start > end \/ div_ceil(end, BIT_COUNT) > buffer_len
    THEN [fault |-> "panic", view |-> NoView]
    ELSE [fault |-> "none",
          view |-> View(0, start % BIT_COUNT, range_len(start, end), mutable)]

new(buffer_len, start, end, mutable) ==
    IF start > end THEN [fault |-> "panic", view |-> NoView]
    ELSE
      LET starting_slot == start \div BIT_COUNT
          ending_slot == div_ceil(end, BIT_COUNT)
      IN  IF (starting_slot >= range_len(start, end))
             \/ (ending_slot > range_len(start, end))
          THEN [fault |-> "panic", view |-> NoView]
          \* &buffer[starting_slot..ending_slot]
          ELSE IF starting_slot > ending_slot \/ ending_slot > buffer_len
          THEN [fault |-> "panic", view |-> NoView]
          ELSE [fault |-> "none",
                view |-> View(starting_slot, start % BIT_COUNT,
                              range_len(start, end), mutable)]

(***************************************************************************)
(* Views derived from a view: split_at, split_at_mut, subslice,            *)
(* subslice_mut, as_const, to_const_slice and clone.  Advancing the        *)
(* buffer address beyond one past the end of the allocation is undefined   *)
(* behaviour: fault "oob".                                                 *)
(***************************************************************************)
Halves(fault, first, second) ==
    [fault |-> fault, first |-> first, second |-> second]

Derived(fault, v) == [fault |-> fault, view |-> v]

\* buffer_address.add(slots) stays inside the allocation or one past its end.
AddInBounds(v, slots) == (v.addr + slots) \in 0 .. NumWords

\* A split whose second half keeps the first-bit offset of the original.
split_at_same_offset(v, bit_index) ==
    IF bit_index > v.bit_count THEN Halves("panic", NoView, NoView)
    ELSE Halves("none",
                View(v.addr, v.first_bit_offset, bit_index, FALSE),
                View(v.addr + ((bit_index + v.first_bit_offset) \div BIT_COUNT),
                     v.first_bit_offset, v.bit_count - bit_index, FALSE))

split_at(v, bit_index) ==
    IF bit_index > v.bit_count THEN Halves("panic", NoView, NoView)
    ELSE
      LET real_bit_index == bit_index + v.first_bit_offset
          real_starting_slot == real_bit_index \div BIT_COUNT
          real_first_bit_offset == real_bit_index % BIT_COUNT
          remaining_bit_count == v.bit_count - bit_index
      IN  IF ~AddInBounds(v, real_starting_slot)
          THEN Halves("oob", NoView, NoView)
          ELSE Halves("none",
                      View(v.addr, v.first_bit_offset, bit_index, FALSE),
                      View(v.addr + real_starting_slot, real_first_bit_offset,
                           remaining_bit_count, FALSE))

\* A split that also rejects bit_index = size.
split_at_mut_rejects_size(v, bit_index) ==
    IF bit_index >= v.bit_count THEN Halves("panic", NoView, NoView)
    ELSE Halves("none",
                View(v.addr, v.first_bit_offset, bit_index, TRUE),
                View(v.addr + ((bit_index + v.first_bit_offset) \div BIT_COUNT),
                     (bit_index + v.first_bit_offset) % BIT_COUNT,
                     v.bit_count - bit_index, TRUE))

\* A split whose first half also covers the first bit of the second.
split_at_mut_overlapping(v, bit_index) ==
    IF bit_index > v.bit_count THEN Halves("panic", NoView, NoView)
    ELSE Halves("none",
                View(v.addr, v.first_bit_offset,
                     Min(bit_index + 1, v.bit_count), TRUE),
                View(v.addr + ((bit_index + v.first_bit_offset) \div BIT_COUNT),
                     (bit_index + v.first_bit_offset) % BIT_COUNT,
                     v.bit_count - bit_index, TRUE))

split_at_mut(v, bit_index) ==
    IF bit_index > v.bit_count THEN Halves("panic", NoView, NoView)
    ELSE
      LET real_bit_index == bit_index + v.first_bit_offset
          real_starting_slot == real_bit_index \div BIT_COUNT
          real_first_bit_offset == real_bit_index % BIT_COUNT
          remaining_bit_count == v.bit_count - bit_index
      IN  IF ~AddInBounds(v, real_starting_slot)
          THEN Halves("oob", NoView, NoView)
          ELSE Halves("none",
                      View(v.addr, v.first_bit_offset, bit_index, TRUE),
                      View(v.addr + real_starting_slot, real_first_bit_offset,
                           remaining_bit_count, TRUE))

\* A subslice that counts its range from the first bit of the base word.
subslice_from_word_start(v, start, end) ==
    IF start > end \/ range_len(start, end) > v.bit_count
    THEN Derived("panic", NoView)
    ELSE Derived("none",
                 View(v.addr + (start \div BIT_COUNT), start % BIT_COUNT,
                      range_len(start, end), FALSE))

subslice(v, start, end) ==
    LET bit_count == range_len(start, end)
    IN  IF start > end THEN Derived("panic", NoView)
        ELSE IF bit_count > v.bit_count THEN Derived("panic", NoView)
        ELSE
          LET real_bit_start == start + v.first_bit_offset
              real_starting_slot == real_bit_start \div BIT_COUNT
              real_first_bit_offset == real_bit_start % BIT_COUNT
          IN  IF ~AddInBounds(v, real_starting_slot)
              THEN Derived("oob", NoView)
              ELSE Derived("none",
                           View(v.addr + real_starting_slot,
                                real_first_bit_offset, bit_count, FALSE))

subslice_mut(v, start, end) ==
    LET bit_count == range_len(start, end)
    IN  IF start > end THEN Derived("panic", NoView)
        ELSE IF bit_count > v.bit_count THEN Derived("panic", NoView)
        ELSE
          LET real_bit_start == start + v.first_bit_offset
              real_starting_slot == real_bit_start \div BIT_COUNT
              real_first_bit_offset == real_bit_start % BIT_COUNT
          IN  IF ~AddInBounds(v, real_starting_slot)
              THEN Derived("oob", NoView)
              ELSE Derived("none",
                           View(v.addr + real_starting_slot,
                                real_first_bit_offset, bit_count, TRUE))

as_const(v) == View(v.addr, v.first_bit_offset, v.bit_count, FALSE)

to_const_slice(v) == View(v.addr, v.first_bit_offset, v.bit_count, FALSE)

clone(v) == View(v.addr, v.first_bit_offset, v.bit_count, FALSE)

(***************************************************************************)
(* The buffer as the flat bit sequence the views index: physical bit p is  *)
(* bit p mod BIT_COUNT of word p div BIT_COUNT.                            *)
(***************************************************************************)
TotalBits == NumWords * BIT_COUNT

PhysBit(buf, p) == Bit(buf[p \div BIT_COUNT], p % BIT_COUNT) = 1

\* The physical position of bit i of view v.
PhysIndex(v, i) == v.addr * BIT_COUNT + v.first_bit_offset + i

\* The physical positions view v covers.
PhysRange(v) == {PhysIndex(v, i) : i \in 0 .. size(v) - 1}

ViewBit(v, buf, i) == PhysBit(buf, PhysIndex(v, i))

(***************************************************************************)
(* Arguments the operations are called with.                               *)
(***************************************************************************)
Caps == 0 .. MaxCap

\* The outcomes of a call whose result may depend on the build profile, each
\* tagged with the builds that produce it ("any" when both agree).
BuildOutcomes(debug_res, release_res) ==
    IF debug_res = release_res
    THEN {[build |-> "any", res |-> debug_res]}
    ELSE {[build |-> "debug", res |-> debug_res],
          [build |-> "release", res |-> release_res]}

\* find_next_{set,clear}_range_from_capped under one build.
range_from_capped(v, buf, CLEAR_BIT, starting_bit, cap, build) ==
    IF CLEAR_BIT
    THEN find_next_clear_range_from_capped(v, buf, starting_bit, cap, build)
    ELSE find_next_set_range_from_capped(v, buf, starting_bit, cap, build)

\* find_next_{set,clear}_range_from under one build.
range_from(v, buf, CLEAR_BIT, starting_bit, build) ==
    IF CLEAR_BIT
    THEN find_next_clear_range_from(v, buf, starting_bit, build)
    ELSE find_next_set_range_from(v, buf, starting_bit, build)

\* The outcomes of a call over the builds: a call that does not overflow
\* under "debug" does the same under "release".
OverBuilds(debug_res, release_res) ==
    IF debug_res.fault = "overflow"
    THEN BuildOutcomes(debug_res, release_res)
    ELSE BuildOutcomes(debug_res, debug_res)

(***************************************************************************)
(* Initial states: the client's buffer, of any content, and no view yet.   *)
(***************************************************************************)
InitAny ==
    /\ buffer \in Buffers
    /\ pre = buffer
    /\ view = NoView
    /\ halves = <<>>
    /\ op = [name |-> "init"]

\* BitmapSliceImpl::new(&buffer, start..end)
New(start, end, mutable) ==
    /\ op.name = "init"
    /\ LET r == new(NumWords, start, end, mutable)
       IN  /\ view' = r.view
           /\ op' = [name |-> "new", start |-> start, end |-> end,
                     fault |-> r.fault]
    /\ UNCHANGED <<buffer, pre, halves>>

Built == op.name = "new" /\ op.fault = "none"

(***************************************************************************)
(* SpecFind: a view is built over any buffer content by the checked        *)
(* constructor and one search is run on it.                                *)
(***************************************************************************)
\* view.find_next_set_from(starting_bit) / view.find_next_clear_from(starting_bit)
FindNextFrom(CLEAR_BIT, starting_bit) ==
    /\ Built
    /\ op' = [name |-> "find_next_from", clear |-> CLEAR_BIT,
              starting_bit |-> starting_bit,
              res |-> IF CLEAR_BIT
                      THEN find_next_clear_from(view, buffer, starting_bit)
                      ELSE find_next_set_from(view, buffer, starting_bit)]
    /\ UNCHANGED <<buffer, pre, view, halves>>

\* view.find_next_set_range_from(starting_bit) / ..clear..
FindNextRangeFrom(CLEAR_BIT, starting_bit) ==
    /\ Built
    /\ \E o \in OverBuilds(range_from(view, buffer, CLEAR_BIT, starting_bit, "debug"),
                         range_from(view, buffer, CLEAR_BIT, starting_bit, "release")) :
           op' = [name |-> "find_next_range_from", clear |-> CLEAR_BIT,
                  starting_bit |-> starting_bit,
                  build |-> o.build, res |-> o.res]
    /\ UNCHANGED <<buffer, pre, view, halves>>

\* view.find_next_set_range_from_capped(starting_bit, cap) / ..clear..
FindNextRangeFromCapped(CLEAR_BIT, starting_bit, cap) ==
    /\ Built
    /\ \E o \in OverBuilds(
                  range_from_capped(view, buffer, CLEAR_BIT, starting_bit, cap, "debug"),
                  range_from_capped(view, buffer, CLEAR_BIT, starting_bit, cap, "release")) :
           op' = [name |-> "find_next_range_from_capped", clear |-> CLEAR_BIT,
                  starting_bit |-> starting_bit, cap |-> cap,
                  build |-> o.build, res |-> o.res]
    /\ UNCHANGED <<buffer, pre, view, halves>>

NextFind ==
    \/ \E start \in 0 .. TotalBits, end \in 0 .. TotalBits :
           New(start, end, FALSE)
    \/ \E c \in BOOLEAN, sb \in 0 .. size(view) : FindNextFrom(c, sb)
    \/ \E c \in BOOLEAN, sb \in 0 .. size(view) : FindNextRangeFrom(c, sb)
    \/ \E c \in BOOLEAN, sb \in 0 .. size(view), cap \in Caps :
           FindNextRangeFromCapped(c, sb, cap)

SpecFind == InitAny /\ [][NextFind]_vars

(***************************************************************************)
(* What a search should return, by a bit-by-bit scan of the view.          *)
(***************************************************************************)
\* The indices of [from, size) whose bit has the polarity searched for.
Matching(v, buf, CLEAR_BIT, from) ==
    {i \in from .. size(v) - 1 : ViewBit(v, buf, i) = ~CLEAR_BIT}

Least(S) == CHOOSE x \in S : \A y \in S : x <= y

\* The length of the maximal run of the polarity starting at bit s.
RunLength(v, buf, CLEAR_BIT, s) ==
    Least({n \in 1 .. size(v) - s :
               s + n = size(v) \/ ViewBit(v, buf, s + n) = CLEAR_BIT})

\* C1: find_next_set_from / find_next_clear_from return the least index in
\* [starting_bit, size) whose bit has the polarity, None exactly when there
\* is none, and never an index >= size.
C1_FindNextIsLeastMatch ==
    op.name = "find_next_from" =>
        LET m == Matching(view, buffer, op.clear, op.starting_bit)
        IN  /\ op.res.fault = "none"
            /\ op.res.some <=> (m # {})
            /\ op.res.some => (op.res.val = Least(m) /\ op.res.val < size(view))

\* C2: the uncapped range queries return the first matching index with the
\* length of the maximal run starting there, None exactly when no bit of the
\* polarity lies in [starting_bit, size).
C2_FindNextRangeIsMaximalRun ==
    op.name = "find_next_range_from" =>
        LET m == Matching(view, buffer, op.clear, op.starting_bit)
        IN  /\ op.res.fault = "none"
            /\ op.res.some <=> (m # {})
            /\ op.res.some =>
                   /\ op.res.start = Least(m)
                   /\ op.res.len = RunLength(view, buffer, op.clear, Least(m))

\* C3: a capped range query returns (s, min(c, n)) whenever the uncapped
\* query from the same starting bit returns (s, n), None whenever the
\* uncapped query returns None, and never a length above the cap c.
C3_CappedIsMinOfUncapped ==
    op.name = "find_next_range_from_capped" =>
        \A b \in Builds :
            (op.build \in {"any", b}) =>
                LET u == range_from(view, buffer, op.clear, op.starting_bit, b)
                IN  u.fault = "none" =>
                        /\ op.res.fault = "none"
                        /\ op.res.some = u.some
                        /\ u.some =>
                               /\ op.res.start = u.start
                               /\ op.res.len = Min(op.cap, u.len)
                               /\ op.res.len <= op.cap

(***************************************************************************)
(* SpecMutate: a Mut view is built by the checked constructor over a       *)
(* buffer and one single-bit or range mutation is applied through it.      *)
(* The buffer's words are drawn from ZERO, MAX and the two alternating     *)
(* words, so that every bit position is met both set and clear, next to    *)
(* set and next to clear neighbours.                                       *)
(***************************************************************************)
RECURSIVE alternating(_)
alternating(n) == IF n <= 0 THEN 0 ELSE 1 + 4 * alternating(n - 2)

PatternWords == {ZERO, MAX, alternating(BIT_COUNT) % Pow2(BIT_COUNT),
                 BitNot(alternating(BIT_COUNT) % Pow2(BIT_COUNT))}

InitPatterns ==
    /\ buffer \in [Slots -> PatternWords]
    /\ pre = buffer
    /\ view = NoView
    /\ halves = <<>>
    /\ op = [name |-> "init"]

\* view.set_bit(i) / view.clear_bit(i) / view.toggle_bit(i)
ModifyBit(operation, bit_index) ==
    /\ Built
    /\ view.mutable
    /\ LET r == modify_bit(view, buffer, bit_index, operation)
       IN  /\ buffer' = r.buf
           /\ op' = [name |-> "modify_bit", operation |-> operation,
                     bit_index |-> bit_index, fault |-> r.fault]
    /\ pre' = buffer
    /\ UNCHANGED <<view, halves>>

\* view.set_bit_range(start..end) / clear_bit_range / toggle_bit_range
ModifyBitRange(operation, start, end) ==
    /\ Built
    /\ view.mutable
    /\ LET r == modify_bit_range(view, buffer, start, end, operation)
       IN  /\ buffer' = r.buf
           /\ op' = [name |-> "modify_bit_range", operation |-> operation,
                     start |-> start, end |-> end, fault |-> r.fault]
    /\ pre' = buffer
    /\ UNCHANGED <<view, halves>>

NextMutate ==
    \/ \E start \in 0 .. TotalBits, end \in 0 .. TotalBits :
           New(start, end, TRUE)
    \/ \E o \in Operations, i \in 0 .. size(view) : ModifyBit(o, i)
    \/ \E o \in Operations, start \in 0 .. size(view) + 1,
          end \in 0 .. size(view) + 1 :
           start <= end + 1 /\ ModifyBitRange(o, start, end)

SpecMutate == InitPatterns /\ [][NextMutate]_vars

\* What an operation makes of a bit.
BitAfter(operation, bit) ==
    CASE operation = "Clear" -> FALSE
      [] operation = "Set" -> TRUE
      [] operation = "Toggle" -> ~bit

\* The buffer after op_bit(i) has been called for i = start, .., end - 1.
RECURSIVE each_bit(_, _, _, _, _)
each_bit(v, buf, start, end, operation) ==
    IF start >= end THEN buf
    ELSE each_bit(v, modify_bit(v, buf, start, operation).buf, start + 1, end,
                  operation)

\* C4: op_bit_range(lo..hi) with lo <= hi <= size leaves the whole buffer as
\* op_bit(i) for each i in [lo, hi) does: the bits of the range are set,
\* cleared or negated and every other bit of the buffer is unchanged.
C4_RangeEqualsEachBit ==
    (op.name = "modify_bit_range" /\ op.start <= op.end /\ op.end <= size(view)) =>
        /\ op.fault = "none"
        /\ buffer = each_bit(view, pre, op.start, op.end, op.operation)
        /\ \A p \in 0 .. TotalBits - 1 :
               PhysBit(buffer, p) =
                   IF p \in {PhysIndex(view, i) : i \in op.start .. op.end - 1}
                   THEN BitAfter(op.operation, PhysBit(pre, p))
                   ELSE PhysBit(pre, p)

\* A range mutation crossing a partial first word, a full word and a partial
\* last word has been applied through a view with a non-zero offset.
C4_Witness ==
    /\ op.name = "modify_bit_range"
    /\ op.fault = "none"
    /\ view.first_bit_offset # 0
    /\ (op.start + view.first_bit_offset) % BIT_COUNT # 0
    /\ (op.end + view.first_bit_offset) % BIT_COUNT # 0
    /\ op.end - op.start > BIT_COUNT + 1
    /\ buffer # pre

\* C5: on a zeroed buffer every get_bit is false; set_bit(i), clear_bit(i)
\* and toggle_bit(i) with i < size make get_bit(i) true, false and negated,
\* leaving every other bit of the view and of the buffer unchanged.
C5_SingleBitFrame ==
    /\ (Built /\ \A s \in Slots : buffer[s] = ZERO) =>
           \A i \in 0 .. size(view) - 1 :
               get_bit(view, buffer, i) = [fault |-> "none", bit |-> FALSE]
    /\ (op.name = "modify_bit" /\ op.bit_index < size(view)) =>
           /\ op.fault = "none"
           /\ get_bit(view, buffer, op.bit_index) =
                  [fault |-> "none",
                   bit |-> BitAfter(op.operation,
                                    get_bit(view, pre, op.bit_index).bit)]
           /\ \A j \in 0 .. size(view) - 1 :
                  j # op.bit_index =>
                      get_bit(view, buffer, j) = get_bit(view, pre, j)
           /\ \A p \in (0 .. TotalBits - 1) \ PhysRange(view) :
                  PhysBit(buffer, p) = PhysBit(pre, p)

\* A bit in the middle of a word of an offset view has been toggled.
C5_Witness ==
    /\ op.name = "modify_bit"
    /\ op.fault = "none"
    /\ op.operation = "Toggle"
    /\ view.first_bit_offset # 0
    /\ op.bit_index > 0
    /\ op.bit_index < size(view) - 1
    /\ buffer # pre

(***************************************************************************)
(* SpecSplitMut: a Mut view of at most MaxSplitBits bits is built over a   *)
(* buffer of all-clear or all-set words and split in two Mut halves;       *)
(* single-bit and range mutations are then applied through either half,    *)
(* in any order and any number of times.                                   *)
(***************************************************************************)
InitFilled ==
    /\ buffer \in {[s \in Slots |-> w] : w \in {ZERO, MAX}}
    /\ pre = buffer
    /\ view = NoView
    /\ halves = <<>>
    /\ op = [name |-> "init"]

\* view.split_at_mut(bit_index)
SplitAtMut(bit_index) ==
    /\ Built
    /\ view.mutable
    /\ LET r == split_at_mut(view, bit_index)
       IN  /\ halves' = IF r.fault = "none" THEN <<r.first, r.second>> ELSE <<>>
           /\ op' = [name |-> "split_at_mut", bit_index |-> bit_index,
                     fault |-> r.fault]
    /\ pre' = buffer
    /\ UNCHANGED <<buffer, view>>

\* halves[h].set_bit(i) / clear_bit(i) / toggle_bit(i)
HalfModifyBit(h, operation, bit_index) ==
    /\ halves # <<>>
    /\ halves[h].mutable
    /\ LET r == modify_bit(halves[h], buffer, bit_index, operation)
       IN  /\ buffer' = r.buf
           /\ op' = [name |-> "half_modify_bit", half |-> h,
                     operation |-> operation, bit_index |-> bit_index,
                     fault |-> r.fault]
    /\ pre' = buffer
    /\ UNCHANGED <<view, halves>>

\* halves[h].set_bit_range(start..end) / clear_bit_range / toggle_bit_range
HalfModifyBitRange(h, operation, start, end) ==
    /\ halves # <<>>
    /\ halves[h].mutable
    /\ LET r == modify_bit_range(halves[h], buffer, start, end, operation)
       IN  /\ buffer' = r.buf
           /\ op' = [name |-> "half_modify_bit_range", half |-> h,
                     operation |-> operation, start |-> start, end |-> end,
                     fault |-> r.fault]
    /\ pre' = buffer
    /\ UNCHANGED <<view, halves>>

NextSplitMut ==
    \/ \E start \in 0 .. TotalBits, end \in 0 .. TotalBits :
           end - start <= MaxSplitBits /\ New(start, end, TRUE)
    \/ \E k \in 0 .. size(view) : SplitAtMut(k)
    \/ \E h \in {1, 2}, o \in Operations, i \in 0 .. MaxSplitBits :
           halves # <<>> /\ i <= size(halves[h]) /\ HalfModifyBit(h, o, i)
    \/ \E h \in {1, 2}, o \in Operations, start \in 0 .. MaxSplitBits,
          end \in 0 .. MaxSplitBits :
           halves # <<>> /\ start <= end /\ end <= size(halves[h])
               /\ HalfModifyBitRange(h, o, start, end)

SpecSplitMut == InitFilled /\ [][NextSplitMut]_vars

\* C6: after split_at_mut the two halves cover disjoint physical bits whose
\* union is the original view's range, and no mutation through one half
\* changes a bit of the other half or a buffer bit outside the original view.
C6_HalvesAreIndependent ==
    halves # <<>> =>
        /\ PhysRange(halves[1]) \cap PhysRange(halves[2]) = {}
        /\ PhysRange(halves[1]) \cup PhysRange(halves[2]) = PhysRange(view)
        /\ op.name \in {"half_modify_bit", "half_modify_bit_range"} =>
               /\ \A j \in 0 .. size(halves[3 - op.half]) - 1 :
                      get_bit(halves[3 - op.half], buffer, j)
                          = get_bit(halves[3 - op.half], pre, j)
               /\ \A p \in (0 .. TotalBits - 1) \ PhysRange(halves[op.half]) :
                      PhysBit(buffer, p) = PhysBit(pre, p)

\* The second half, which shares a storage word with the first, has been
\* mutated by a range operation after the first half had been mutated.
C6_Witness ==
    /\ halves # <<>>
    /\ op.name = "half_modify_bit_range"
    /\ op.half = 2
    /\ op.fault = "none"
    /\ buffer # pre
    /\ halves[2].first_bit_offset # 0
    /\ size(halves[1]) > 1
    /\ \E i, j \in 0 .. size(halves[1]) - 1 :
           ViewBit(halves[1], pre, i) # ViewBit(halves[1], pre, j)

(***************************************************************************)
(* SpecSplitAt: a view is built by the checked constructor and split by    *)
(* split_at.                                                               *)
(***************************************************************************)
\* view.split_at(bit_index)
SplitAt(bit_index) ==
    /\ Built
    /\ LET r == split_at(view, bit_index)
       IN  /\ halves' = IF r.fault = "none" THEN <<r.first, r.second>> ELSE <<>>
           /\ op' = [name |-> "split_at", bit_index |-> bit_index,
                     fault |-> r.fault]
    /\ pre' = buffer
    /\ UNCHANGED <<buffer, view>>

NextSplitAt ==
    \/ \E start \in 0 .. TotalBits, end \in 0 .. TotalBits, m \in BOOLEAN :
           New(start, end, m)
    \/ \E k \in 0 .. size(view) + 1 : SplitAt(k)

SpecSplitAt == InitPatterns /\ [][NextSplitAt]_vars

\* C7: split_at(k) with k <= N returns halves of sizes k and N - k that read
\* the original bits i < k and k + j, and does not modify the buffer.
C7_SplitReadsOriginalBits ==
    (op.name = "split_at" /\ op.bit_index <= size(view)) =>
        /\ op.fault = "none"
        /\ halves # <<>>
        /\ size(halves[1]) = op.bit_index
        /\ size(halves[2]) = size(view) - op.bit_index
        /\ \A i \in 0 .. op.bit_index - 1 :
               get_bit(halves[1], buffer, i) = get_bit(view, pre, i)
        /\ \A j \in 0 .. size(view) - op.bit_index - 1 :
               get_bit(halves[2], buffer, j)
                   = [fault |-> "none",
                      bit |-> ViewBit(view, pre, op.bit_index + j)]
        /\ buffer = pre

\* An offset view holding set and clear bits has been split inside a word,
\* with both halves non-empty.
C7_Witness ==
    /\ op.name = "split_at"
    /\ op.fault = "none"
    /\ view.first_bit_offset # 0
    /\ halves[2].first_bit_offset # 0
    /\ size(halves[1]) > 0
    /\ size(halves[2]) > BIT_COUNT
    /\ \E i, j \in 0 .. size(view) - 1 : ViewBit(view, buffer, i) # ViewBit(view, buffer, j)

(***************************************************************************)
(* SpecNew: the checked constructor is called over any buffer content with *)
(* any range, inverted and out-of-buffer ranges included.                  *)
(***************************************************************************)
NextNew ==
    \E start \in 0 .. TotalBits + 1, end \in 0 .. TotalBits + 1, m \in BOOLEAN :
        New(start, end, m)

SpecNew == InitAny /\ [][NextNew]_vars

\* C8: new(buffer, start..end) faults when start > end or when ceil(end/W)
\* exceeds the buffer's word count, and returns a view for every other range.
C8_NewFaultsExactlyOnBadRange ==
    op.name = "new" =>
        ((op.fault # "none")
             <=> (op.start > op.end \/ div_ceil(op.end, BIT_COUNT) > NumWords))

\* C9: a view returned by new(buffer, start..end) has size end - start,
\* first-bit offset start mod W and base word start div W, and its bit i is
\* bit start + i of the buffer.
C9_NewViewAddressesRange ==
    Built =>
        /\ size(view) = op.end - op.start
        /\ view.first_bit_offset = op.start % BIT_COUNT
        /\ view.addr = op.start \div BIT_COUNT
        /\ \A i \in 0 .. (op.end - op.start) - 1 :
               get_bit(view, buffer, i)
                   = [fault |-> "none", bit |-> PhysBit(buffer, op.start + i)]

\* A view starting inside the second word and reaching into the third has
\* been returned over a buffer whose covered bits are not all equal.
C9_Witness ==
    /\ Built
    /\ op.start > BIT_COUNT
    /\ op.start % BIT_COUNT # 0
    /\ op.end > 2 * BIT_COUNT
    /\ \E i, j \in 0 .. size(view) - 1 : ViewBit(view, buffer, i) # ViewBit(view, buffer, j)

(***************************************************************************)
(* SpecDerive: from a view built by the checked constructor, views are     *)
(* derived one from the other, up to MaxDerive deep.                       *)
(***************************************************************************)
InitZeroed ==
    /\ buffer = [s \in Slots |-> ZERO]
    /\ pre = buffer
    /\ view = NoView
    /\ halves = <<>>
    /\ op = [name |-> "init"]

\* The view at hand is one a further view can be derived from.
Derivable ==
    \/ Built
    \/ op.name = "derive" /\ op.fault = "none" /\ op.depth < MaxDerive

Depth == IF op.name = "derive" THEN op.depth + 1 ELSE 1

\* The view at hand becomes v, derived from it by the call `by`.
Derive(by, fault, v) ==
    /\ view' = v
    /\ op' = [name |-> "derive", by |-> by, parent |-> view, fault |-> fault,
              depth |-> Depth]
    /\ UNCHANGED <<buffer, pre, halves>>

\* view.split_at(k), keeping the first (which = 1) or second half
DeriveSplitAt(k, which) ==
    /\ Derivable
    /\ LET r == split_at(view, k)
       IN  Derive("split_at", r.fault, IF which = 1 THEN r.first ELSE r.second)

\* view.split_at_mut(k), keeping the first or second half
DeriveSplitAtMut(k, which) ==
    /\ Derivable
    /\ view.mutable
    /\ LET r == split_at_mut(view, k)
       IN  Derive("split_at_mut", r.fault,
                  IF which = 1 THEN r.first ELSE r.second)

\* view.subslice(start..end)
DeriveSubslice(start, end) ==
    /\ Derivable
    /\ LET r == subslice(view, start, end)
       IN  Derive("subslice", r.fault, r.view)

\* view.subslice_mut(start..end)
DeriveSubsliceMut(start, end) ==
    /\ Derivable
    /\ view.mutable
    /\ LET r == subslice_mut(view, start, end)
       IN  Derive("subslice_mut", r.fault, r.view)

\* view.as_const()
DeriveAsConst ==
    /\ Derivable
    /\ Derive("as_const", "none", as_const(view))

\* view.to_const_slice()
DeriveToConstSlice ==
    /\ Derivable
    /\ Derive("to_const_slice", "none", to_const_slice(view))

\* view.clone(), of a Const view
DeriveClone ==
    /\ Derivable
    /\ ~view.mutable
    /\ Derive("clone", "none", clone(view))

NextDerive ==
    \/ \E start \in 0 .. TotalBits, end \in 0 .. TotalBits, m \in BOOLEAN :
           New(start, end, m)
    \/ \E k \in 0 .. size(view) + 1, which \in {1, 2} : DeriveSplitAt(k, which)
    \/ \E k \in 0 .. size(view) + 1, which \in {1, 2} : DeriveSplitAtMut(k, which)
    \/ \E start \in 0 .. TotalBits, end \in 0 .. TotalBits : DeriveSubslice(start, end)
    \/ \E start \in 0 .. TotalBits, end \in 0 .. TotalBits : DeriveSubsliceMut(start, end)
    \/ DeriveAsConst
    \/ DeriveToConstSlice
    \/ DeriveClone

SpecDerive == InitZeroed /\ [][NextDerive]_vars

\* C10: every view derived without a fault has first-bit offset < W and a
\* physical bit range inside that of the view it was derived from, hence
\* inside the buffer.
C10_DerivedViewsStayInsideParent ==
    (op.name = "derive" /\ op.fault = "none") =>
        /\ view.first_bit_offset < BIT_COUNT
        /\ PhysRange(view) \subseteq PhysRange(op.parent)
        /\ PhysRange(view) \subseteq 0 .. TotalBits - 1

(***************************************************************************)
(* SpecSubslice: a view is built by the checked constructor and           *)
(* subslice or subslice_mut is called on it.                               *)
(***************************************************************************)
\* view.subslice(start..end) (mut = FALSE) / view.subslice_mut(start..end)
Subslice(mut, start, end) ==
    /\ Built
    /\ mut => view.mutable
    /\ LET r == IF mut THEN subslice_mut(view, start, end)
                ELSE subslice(view, start, end)
       IN  /\ halves' = IF r.fault = "none" THEN <<r.view>> ELSE <<>>
           /\ op' = [name |-> "subslice", mut |-> mut, start |-> start,
                     end |-> end, parent |-> view, fault |-> r.fault]
    /\ pre' = buffer
    /\ UNCHANGED <<buffer, view>>

NextSubslice ==
    \/ \E start \in 0 .. TotalBits, end \in 0 .. TotalBits, m \in BOOLEAN :
           New(start, end, m)
    \/ \E mut \in BOOLEAN, start \in 0 .. size(view) + 1,
          end \in 0 .. size(view) + 1 :
           start <= end + 1 /\ Subslice(mut, start, end)

SpecSubslice == InitPatterns /\ [][NextSubslice]_vars

\* C11: subslice(a..b) and subslice_mut(a..b) with a <= b <= N return a view
\* of size b - a and first-bit offset (a + parent offset) mod W whose bit i
\* is the parent's bit a + i; the parent view and the buffer are unchanged.
C11_SubsliceReadsParentBits ==
    (op.name = "subslice" /\ op.start <= op.end /\ op.end <= size(op.parent)) =>
        /\ op.fault = "none"
        /\ halves # <<>>
        /\ size(halves[1]) = op.end - op.start
        /\ halves[1].first_bit_offset
               = (op.start + op.parent.first_bit_offset) % BIT_COUNT
        /\ halves[1].mutable = op.mut
        /\ \A i \in 0 .. (op.end - op.start) - 1 :
               get_bit(halves[1], buffer, i)
                   = [fault |-> "none",
                      bit |-> ViewBit(op.parent, pre, op.start + i)]
        /\ view = op.parent
        /\ buffer = pre

\* A subslice of more than a word, beginning inside a word at another
\* offset than its offset parent, has been returned over mixed bits.
C11_Witness ==
    /\ op.name = "subslice"
    /\ op.fault = "none"
    /\ op.start > 0
    /\ op.end <= size(op.parent)
    /\ op.parent.first_bit_offset # 0
    /\ halves[1].first_bit_offset # 0
    /\ halves[1].first_bit_offset # op.parent.first_bit_offset
    /\ size(halves[1]) > BIT_COUNT
    /\ \E i, j \in 0 .. size(halves[1]) - 1 :
           ViewBit(halves[1], buffer, i) # ViewBit(halves[1], buffer, j)

(***************************************************************************)
(* The iterators.  A BitmapSliceRangeIter is its last_range_end; a         *)
(* BitmapSliceIter is its inner range iterator and its last_range, an      *)
(* Option<(usize, usize)> kept as (last_some, last_start, last_count).     *)
(***************************************************************************)
IterState(last_range_end, last_some, last_start, last_count) ==
    [last_range_end |-> last_range_end, last_some |-> last_some,
     last_start |-> last_start, last_count |-> last_count]

\* What a next() call returns (fault, some, item) and leaves the iterator in.
IterResult(fault, some, item, it) ==
    [fault |-> fault, some |-> some, item |-> item, it |-> it]

\* The run iterator after find_next_set_range_from has returned r.
range_iter_found(v, it, r, build) ==
    IF r.fault # "none" THEN IterResult(r.fault, FALSE, <<>>, it)
    ELSE IF r.some
    THEN IF build = "debug" /\ Overflows(r.start + r.len)
         THEN IterResult("overflow", FALSE, <<>>, it)
         ELSE IterResult("none", TRUE, <<r.start, r.len>>,
                         [it EXCEPT !.last_range_end = Wrap(r.start + r.len)])
    ELSE IterResult("none", FALSE, <<>>,
                    [it EXCEPT !.last_range_end = size(v)])

\* BitmapSliceRangeIter::next
range_iter_next(v, buf, it, build) ==
    IF it.last_range_end < size(v)
    THEN range_iter_found(v, it,
             find_next_set_range_from(v, buf, it.last_range_end, build), build)
    ELSE IterResult("none", FALSE, <<>>, it)

\* self.last_range = self.inner.next(), where inner is what that call
\* returned and left.
iter_fill(inner) ==
    IF inner.some
    THEN [inner.it EXCEPT !.last_some = TRUE,
                          !.last_start = inner.item[1],
                          !.last_count = inner.item[2]]
    ELSE inner.it

\* BitmapSliceIter::next from `if let Some(..) = self.last_range.as_mut()` on.
iter_take(it, build) ==
    IF it.last_some
    THEN \* debug_assert!(*range_count != 0)
         IF build = "debug" /\ it.last_count = 0
         THEN IterResult("panic", FALSE, <<>>, it)
         ELSE IF build = "debug"
                 /\ (Overflows(it.last_start + 1) \/ Overflows(it.last_count - 1))
         THEN IterResult("overflow", FALSE, <<>>, it)
         ELSE IterResult("none", TRUE, it.last_start,
                  IF Wrap(it.last_count - 1) = 0
                  THEN IterState(it.last_range_end, FALSE, 0, 0)
                  ELSE IterState(it.last_range_end, TRUE,
                                 Wrap(it.last_start + 1),
                                 Wrap(it.last_count - 1)))
    ELSE IterResult("none", FALSE, <<>>, it)

\* BitmapSliceIter::next once the inner iterator has been asked.
iter_after(inner, build) ==
    IF inner.fault # "none" THEN inner ELSE iter_take(iter_fill(inner), build)

\* BitmapSliceIter::next
iter_next(v, buf, it, build) ==
    IF it.last_some THEN iter_take(it, build)
    ELSE iter_after(range_iter_next(v, buf, it, build), build)

\* The client's loop after find_next_set_range_from has returned r.
manual_found(it, r, build) ==
    IF r.fault # "none" THEN IterResult(r.fault, FALSE, <<>>, it)
    ELSE IF r.some
    THEN IF build = "debug" /\ Overflows(r.start + r.len)
         THEN IterResult("overflow", FALSE, <<>>, it)
         ELSE IterResult("none", TRUE, <<r.start, r.len>>,
                         [it EXCEPT !.last_range_end = Wrap(r.start + r.len)])
    ELSE IterResult("none", FALSE, <<>>, it)

\* One step of the client's loop "find_next_set_range_from(0), then from
\* s + n of the run (s, n) returned last"; it.last_range_end is where the
\* search resumes.
manual_next(v, buf, it, build) ==
    manual_found(it, find_next_set_range_from(v, buf, it.last_range_end, build),
                 build)

(***************************************************************************)
(* SpecIter: a view is built by the checked constructor and its set bits   *)
(* are enumerated by iter() ("bits"), by range_iter() ("runs") or by the   *)
(* client's loop over find_next_set_range_from ("manual"), one next() or   *)
(* one query per step.                                                     *)
(***************************************************************************)
IterKinds == {"bits", "runs", "manual"}

\* Most items an enumeration is followed for.
MaxYield == TotalBits + 1

\* view.iter() / view.range_iter() / the start of the client's loop
Iter(kind, build) ==
    /\ Built
    /\ op' = [name |-> "iter", kind |-> kind, build |-> build,
              it |-> IterState(0, FALSE, 0, 0), yielded |-> <<>>,
              nones |-> 0, revived |-> FALSE, fault |-> "none"]
    /\ UNCHANGED <<buffer, pre, view, halves>>

\* The call has returned r: the item, if any, is recorded.
IterAdvance(r) ==
    op' = [op EXCEPT
             !.it = r.it,
             !.fault = r.fault,
             !.yielded = IF r.some THEN Append(@, r.item) ELSE @,
             !.nones = IF r.fault = "none" /\ ~r.some THEN @ + 1 ELSE @,
             !.revived = @ \/ (r.some /\ op.nones > 0)]

\* iterator.next(), or the next query of the client's loop
IterNext ==
    /\ op.name = "iter"
    /\ op.fault = "none"
    /\ Len(op.yielded) < MaxYield
    /\ op.nones <= (IF op.kind = "manual" THEN 0 ELSE MaxAfterNone)
    /\ IterAdvance(
           CASE op.kind = "bits" -> iter_next(view, buffer, op.it, op.build)
             [] op.kind = "runs" -> range_iter_next(view, buffer, op.it, op.build)
             [] op.kind = "manual" -> manual_next(view, buffer, op.it, op.build))
    /\ UNCHANGED <<buffer, pre, view, halves>>

NextIter ==
    \/ \E start \in 0 .. TotalBits, end \in 0 .. TotalBits :
           New(start, end, FALSE)
    \/ \E kind \in IterKinds, build \in Builds : Iter(kind, build)
    \/ IterNext

SpecIter == InitAny /\ [][NextIter]_vars

\* The maximal runs of set bits of [i, size), by a bit-by-bit scan.
RECURSIVE ScanRuns(_, _, _)
ScanRuns(v, buf, i) ==
    IF i >= size(v) THEN <<>>
    ELSE IF ~ViewBit(v, buf, i) THEN ScanRuns(v, buf, i + 1)
    ELSE LET n == RunLength(v, buf, FALSE, i)
         IN  <<<<i, n>>>> \o ScanRuns(v, buf, i + n)

\* The set bits of [i, size), by a bit-by-bit scan.
RECURSIVE ScanBits(_, _, _)
ScanBits(v, buf, i) ==
    IF i >= size(v) THEN <<>>
    ELSE IF ViewBit(v, buf, i) THEN <<i>> \o ScanBits(v, buf, i + 1)
    ELSE ScanBits(v, buf, i + 1)

IsPrefix(a, b) == Len(a) <= Len(b) /\ a = SubSeq(b, 1, Len(a))

\* C12: the runs returned by find_next_set_range_from(0) and then by
\* find_next_set_range_from(s + n) of the run returned last, until None, are
\* the maximal runs of set bits of the view, in order.
C12_ManualLoopEnumeratesRuns ==
    (op.name = "iter" /\ op.kind = "manual") =>
        /\ op.fault = "none"
        /\ IsPrefix(op.yielded, ScanRuns(view, buffer, 0))
        /\ op.nones > 0 => op.yielded = ScanRuns(view, buffer, 0)

\* C13: iter() yields the indices i < size with get_bit(i) true, once each
\* and in increasing order; range_iter() yields the maximal runs of set bits.
C13_IteratorsYieldSetBits ==
    (op.name = "iter" /\ op.kind \in {"bits", "runs"}) =>
        LET expected == IF op.kind = "bits" THEN ScanBits(view, buffer, 0)
                        ELSE ScanRuns(view, buffer, 0)
        IN  /\ op.fault = "none"
            /\ IsPrefix(op.yielded, expected)
            /\ op.nones > 0 => op.yielded = expected

\* C18: once next() on iter() or range_iter() has returned None, every later
\* next() returns None and the run iterator's last_range_end equals size.
C18_ExhaustionIsPermanent ==
    (op.name = "iter" /\ op.kind \in {"bits", "runs"} /\ op.nones > 0) =>
        /\ ~op.revived
        /\ op.fault = "none"
        /\ op.it.last_range_end = size(view)

\* C19: on a view of size N, iter() yields at most N indices and
\* range_iter() at most N runs before returning None.
C19_IteratorsYieldAtMostSize ==
    (op.name = "iter" /\ op.kind \in {"bits", "runs"}) =>
        Len(op.yielded) <= size(view)

(***************************************************************************)
(* Faults of the range mutations, under SpecMutate.                        *)
(***************************************************************************)
\* C14: set_bit_range, clear_bit_range and toggle_bit_range called with
\* lo..hi fault whenever lo > hi or hi > size, and change nothing and do not
\* fault when lo = hi.
C14_RangeMutationFaultsOnBadRange ==
    op.name = "modify_bit_range" =>
        /\ (op.start > op.end \/ op.end > size(view)) => op.fault # "none"
        /\ (op.start = op.end /\ op.end <= size(view)) =>
               (op.fault = "none" /\ buffer = pre)

\* C15: whenever set_bit_range, clear_bit_range or toggle_bit_range faults,
\* every word of the buffer holds the value it had before the call.
C15_FaultedRangeMutationWritesNothing ==
    (op.name = "modify_bit_range" /\ op.fault # "none") => buffer = pre

\* A range that begins inside the view and ends past it has been rejected,
\* where the operation would have changed a bit of the part inside the view.
C15_Witness ==
    /\ op.name = "modify_bit_range"
    /\ op.fault = "panic"
    /\ op.start < size(view)
    /\ op.end > size(view)
    /\ view.first_bit_offset # 0
    /\ \E i \in op.start .. size(view) - 1 :
           BitAfter(op.operation, ViewBit(view, pre, i)) # ViewBit(view, pre, i)

(***************************************************************************)
(* Faults of the searches, under SpecFind.                                 *)
(***************************************************************************)
\* C16: every search (find_next_set|clear_from, the range queries and their
\* capped forms), from any starting bit and with any cap, returns without a
\* panic or an arithmetic overflow, and returns None when no bit of
\* [starting_bit, size) has the polarity searched for.
C16_SearchesNeverFault ==
    op.name \in {"find_next_from", "find_next_range_from",
                 "find_next_range_from_capped"} =>
        /\ op.res.fault = "none"
        /\ Matching(view, buffer, op.clear, op.starting_bit) = {} => ~op.res.some

(***************************************************************************)
(* SpecBit: a Mut view is built by the checked constructor and one bit is  *)
(* read or mutated through it, at an index inside or past the view.        *)
(***************************************************************************)
\* view.get_bit(bit_index); slot and offset are the word and the in-word
\* position the call reads (-1 when it reads nothing).
GetBit(bit_index) ==
    /\ Built
    /\ LET r == get_bit(view, buffer, bit_index)
           t == translate_bit_index(view, bit_index)
       IN  op' = [name |-> "get_bit", bit_index |-> bit_index,
                  fault |-> r.fault, bit |-> r.bit,
                  slot |-> IF t.fault = "none" THEN t.slot ELSE -1,
                  offset |-> IF t.fault = "none" THEN t.offset ELSE -1]
    /\ pre' = buffer
    /\ UNCHANGED <<buffer, view, halves>>

NextBit ==
    \/ \E start \in 0 .. TotalBits, end \in 0 .. TotalBits :
           New(start, end, TRUE)
    \/ \E i \in 0 .. size(view) + 1 : GetBit(i)
    \/ \E o \in Operations, i \in 0 .. size(view) + 1 : ModifyBit(o, i)

SpecBit == InitPatterns /\ [][NextBit]_vars

\* The (slot, in-word position) pairs at which two buffers differ.
Changed(a, b) ==
    {sk \in Slots \X (0 .. BIT_COUNT - 1) : Bit(a[sk[1]], sk[2]) # Bit(b[sk[1]], sk[2])}

\* C17: get_bit, set_bit, clear_bit and toggle_bit with i >= size fault
\* without reading or changing a bit, also when bit i + offset lies inside
\* the buffer; with i < size they address the word (i + offset) div W of the
\* view at in-word position (i + offset) mod W.
C17_BitIndexIsBoundsChecked ==
    op.name \in {"get_bit", "modify_bit"} =>
        LET real == op.bit_index + view.first_bit_offset
            slot == real \div BIT_COUNT
            offset == real % BIT_COUNT
        IN  IF op.bit_index >= size(view)
            THEN /\ op.fault = "panic"
                 /\ buffer = pre
                 /\ op.name = "get_bit" => op.slot = -1
            ELSE /\ op.fault = "none"
                 /\ op.name = "get_bit" =>
                        /\ op.slot = slot /\ op.offset = offset
                        /\ op.bit = (Bit(buffer[view.addr + slot], offset) = 1)
                        /\ buffer = pre
                 /\ op.name = "modify_bit" =>
                        /\ Changed(buffer, pre) \subseteq {<<view.addr + slot, offset>>}
                        /\ (Bit(buffer[view.addr + slot], offset) = 1)
                               = BitAfter(op.operation,
                                          Bit(pre[view.addr + slot], offset) = 1)

\* toggle_bit(size) has been rejected on an offset view that ends inside a
\* word, so that bit size + offset lies in the buffer, in the view's last word.
C17_Witness ==
    /\ op.name = "modify_bit"
    /\ op.operation = "Toggle"
    /\ op.bit_index = size(view)
    /\ op.fault = "panic"
    /\ size(view) > 0
    /\ view.first_bit_offset # 0
    /\ (size(view) + view.first_bit_offset) % BIT_COUNT # 0
    /\ PhysIndex(view, op.bit_index) < TotalBits

(***************************************************************************)
(* SpecToggle: a Mut view is built by the checked constructor and          *)
(* toggle_bit_range is called on it twice with the same range.             *)
(***************************************************************************)
\* view.toggle_bit_range(start..end), the first call
ToggleBitRange(start, end) ==
    /\ Built
    /\ view.mutable
    /\ LET r == modify_bit_range(view, buffer, start, end, "Toggle")
       IN  /\ buffer' = r.buf
           /\ op' = [name |-> "toggle_bit_range", start |-> start,
                     end |-> end, fault |-> r.fault, calls |-> 1,
                     initial |-> buffer]
    /\ pre' = buffer
    /\ UNCHANGED <<view, halves>>

\* view.toggle_bit_range(start..end), the second call with the same range
ToggleBitRangeAgain ==
    /\ op.name = "toggle_bit_range"
    /\ op.calls = 1
    /\ op.fault = "none"
    /\ LET r == modify_bit_range(view, buffer, op.start, op.end, "Toggle")
       IN  /\ buffer' = r.buf
           /\ op' = [op EXCEPT !.fault = r.fault, !.calls = 2]
    /\ pre' = buffer
    /\ UNCHANGED <<view, halves>>

NextToggle ==
    \/ \E start \in 0 .. TotalBits, end \in 0 .. TotalBits :
           New(start, end, TRUE)
    \/ \E start \in 0 .. size(view), end \in 0 .. size(view) :
           start <= end /\ ToggleBitRange(start, end)
    \/ ToggleBitRangeAgain

SpecToggle == InitPatterns /\ [][NextToggle]_vars

\* C20: toggle_bit_range(lo..hi) with lo <= hi <= size, applied twice,
\* leaves the buffer with the content it had before the first call.
C20_ToggleTwiceIsIdentity ==
    (op.name = "toggle_bit_range" /\ op.calls = 2
        /\ op.start <= op.end /\ op.end <= size(view)) =>
        /\ op.fault = "none"
        /\ buffer = op.initial

\* The second toggle of a range crossing a partial first word, a full word
\* and a partial last word of an offset view has been applied, over bits
\* that were not all equal.
C20_Witness ==
    /\ op.name = "toggle_bit_range"
    /\ op.calls = 2
    /\ op.fault = "none"
    /\ view.first_bit_offset # 0
    /\ (op.start + view.first_bit_offset) % BIT_COUNT # 0
    /\ (op.end + view.first_bit_offset) % BIT_COUNT # 0
    /\ op.end - op.start > BIT_COUNT + 1
    /\ buffer # pre
    /\ \E i, j \in op.start .. op.end - 1 :
           ViewBit(view, buffer, i) # ViewBit(view, buffer, j)

(***************************************************************************)
(* The owning Bitmap (bitmap/api.rs).  Its store is the first buffer_len   *)
(* words of the buffer; every query and mutation goes through the view     *)
(* made by as_slice / as_slice_mut: offset 0, buffer_len * BIT_COUNT bits. *)
(***************************************************************************)
MAXIMUM_BUFFER_SIZE == USIZE_MAX \div BIT_COUNT

\* Variant: the view's size is given in words instead of bits.
as_slice_in_words(buffer_len) ==
    IF buffer_len > MAXIMUM_BUFFER_SIZE THEN Derived("panic", NoView)
    ELSE Derived("none", View(0, 0, buffer_len, FALSE))

as_slice(buffer_len) ==
    IF buffer_len > MAXIMUM_BUFFER_SIZE THEN Derived("panic", NoView)
    ELSE Derived("none", View(0, 0, buffer_len * BIT_COUNT, FALSE))

as_slice_mut(buffer_len) ==
    IF buffer_len > MAXIMUM_BUFFER_SIZE THEN Derived("panic", NoView)
    ELSE Derived("none", View(0, 0, buffer_len * BIT_COUNT, TRUE))

find_first_clear_range(v, buf, build) ==
    find_next_clear_range_from(v, buf, 0, build)

\* Bitmap::find_first_clear_range
bitmap_find_first_clear_range(buffer_len, buf, build) ==
    IF as_slice(buffer_len).fault # "none"
    THEN FaultedRun(as_slice(buffer_len).fault)
    ELSE find_first_clear_range(as_slice(buffer_len).view, buf, build)

\* The store lengths tried: every prefix of the buffer.
StoreLens == 0 .. NumWords

\* Bitmap::new(&mut buffer[.. buffer_len])
BitmapNew(buffer_len) ==
    /\ op.name = "init"
    /\ op' = [name |-> "bitmap_new", len |-> buffer_len]
    /\ UNCHANGED <<buffer, pre, view, halves>>

Owned == op.name = "bitmap_new"

\* bitmap.find_first_clear_range()
BitmapFindFirstClearRange ==
    /\ Owned
    /\ \E build \in Builds :
           op' = [name |-> "bitmap_find_first_clear_range", len |-> op.len,
                  build |-> build,
                  res |-> bitmap_find_first_clear_range(op.len, buffer, build)]
    /\ UNCHANGED <<buffer, pre, view, halves>>

(***************************************************************************)
(* SpecBitmap: an owning bitmap over any content and one search for its    *)
(* first clear run.                                                        *)
(***************************************************************************)
NextBitmap ==
    \/ \E len \in StoreLens : BitmapNew(len)
    \/ BitmapFindFirstClearRange

SpecBitmap == InitAny /\ [][NextBitmap]_vars

\* The store of a bitmap of buffer_len words, as the bits 0 .. N-1.
StoreBits(buffer_len) == 0 .. buffer_len * BIT_COUNT - 1

\* C21: on a bitmap whose bits are all set find_first_clear_range() returns
\* None; on a bitmap of size N >= 1 whose bits are all clear it returns
\* (0, N).
C21_UniformBitmapFirstClearRange ==
    op.name = "bitmap_find_first_clear_range" =>
        /\ (\A p \in StoreBits(op.len) : PhysBit(buffer, p)) =>
               (op.res.fault = "none" /\ ~op.res.some)
        /\ (op.len >= 1 /\ \A p \in StoreBits(op.len) : ~PhysBit(buffer, p)) =>
               /\ op.res.fault = "none"
               /\ op.res.some
               /\ op.res.start = 0
               /\ op.res.len = op.len * BIT_COUNT

C21_Witness ==
    /\ op.name = "bitmap_find_first_clear_range"
    /\ op.len = NumWords
    /\ \A p \in StoreBits(op.len) : ~PhysBit(buffer, p)
    /\ op.res.some
    /\ op.res.len = TotalBits

(***************************************************************************)
(* Elementwise combination of two owning bitmaps (bitmap/traits.rs).  The  *)
(* stores are sequences of words; dest is zipped with src, so only the     *)
(* words both stores have are combined.  src is only read.                 *)
(***************************************************************************)
Combined(dest, src) == [dest |-> dest, src |-> src]

\* Variant: the words src does not have are taken as zero.
bitand_assign_zero_filled(dest, src) ==
    Combined([i \in 1 .. Len(dest) |->
                 IF i <= Len(src) THEN BitAnd(dest[i], src[i]) ELSE ZERO],
             src)

bitand_assign(dest, src) ==
    Combined([i \in 1 .. Len(dest) |->
                 IF i <= Len(src) THEN BitAnd(dest[i], src[i]) ELSE dest[i]],
             src)

bitor_assign(dest, src) ==
    Combined([i \in 1 .. Len(dest) |->
                 IF i <= Len(src) THEN BitOr(dest[i], src[i]) ELSE dest[i]],
             src)

\* Variant: the exclusive or is computed as an inclusive or.
bitxor_assign_inclusive(dest, src) ==
    Combined([i \in 1 .. Len(dest) |->
                 IF i <= Len(src) THEN BitOr(dest[i], src[i]) ELSE dest[i]],
             src)

bitxor_assign(dest, src) ==
    Combined([i \in 1 .. Len(dest) |->
                 IF i <= Len(src) THEN BitXor(dest[i], src[i]) ELSE dest[i]],
             src)

\* The store of a bitmap over the first buffer_len words of buf, and buf
\* with that store written back.
Store(buf, buffer_len) == [i \in 1 .. buffer_len |-> buf[i - 1]]

WithStore(buf, store) ==
    [s \in Slots |-> IF s < Len(store) THEN store[s + 1] ELSE buf[s]]

Combinators == {"and", "or", "xor"}

\* The stores of the right-hand bitmap: up to NumWords pattern words.
RhsStores == UNION {[1 .. n -> PatternWords] : n \in 0 .. NumWords}

\* a &= &b, a |= &b, a ^= &b
BitAssign(kind, rhs) ==
    /\ Owned
    /\ LET dest == Store(buffer, op.len)
           r == CASE kind = "and" -> bitand_assign(dest, rhs)
                  [] kind = "or" -> bitor_assign(dest, rhs)
                  [] kind = "xor" -> bitxor_assign(dest, rhs)
       IN  /\ buffer' = WithStore(buffer, r.dest)
           /\ op' = [name |-> "bit_assign", kind |-> kind, len |-> op.len,
                     rhs |-> rhs, rhs_after |-> r.src, fault |-> "none"]
    /\ UNCHANGED <<pre, view, halves>>

(***************************************************************************)
(* SpecCombine: two owning bitmaps of pattern words, of equal or different *)
(* lengths, and one combining assignment.                                  *)
(***************************************************************************)
NextCombine ==
    \/ \E len \in StoreLens : BitmapNew(len)
    \/ \E kind \in Combinators, rhs \in RhsStores : BitAssign(kind, rhs)

SpecCombine == InitPatterns /\ [][NextCombine]_vars

\* Bit p of a store given as a sequence of words.
StoreBit(store, p) == Bit(store[p \div BIT_COUNT + 1], p % BIT_COUNT) = 1

\* The bit the combinator yields for bits a and b.
CombinedBit(kind, a, b) ==
    CASE kind = "and" -> a /\ b
      [] kind = "or" -> a \/ b
      [] kind = "xor" -> a # b

\* C22: for two bitmaps with the same number of words, A &= B, A |= B and
\* A ^= B set every bit i of A to old A[i] AND / OR / XOR B[i] and leave B
\* unchanged.
C22_CombineIsBitwise ==
    (op.name = "bit_assign" /\ Len(op.rhs) = op.len) =>
        /\ op.fault = "none"
        /\ op.rhs_after = op.rhs
        /\ \A p \in StoreBits(op.len) :
               PhysBit(buffer, p) =
                   CombinedBit(op.kind, PhysBit(pre, p), StoreBit(op.rhs, p))

\* A has its low two thirds set, B its high two thirds, and A &= B leaves
\* exactly the middle third.
C22_Witness ==
    /\ op.name = "bit_assign"
    /\ op.kind = "and"
    /\ op.len = NumWords
    /\ Len(op.rhs) = NumWords
    /\ \A p \in StoreBits(op.len) :
           /\ PhysBit(pre, p) = (p < 2 * BIT_COUNT)
           /\ StoreBit(op.rhs, p) = (p >= BIT_COUNT)
           /\ PhysBit(buffer, p) = (p >= BIT_COUNT /\ p < 2 * BIT_COUNT)

\* C23: when A and B have different word counts, only the first
\* min(len(A), len(B)) words are combined, every later word of A is
\* unchanged, B is unchanged and no fault is raised.
C23_CombineStopsAtShorter ==
    (op.name = "bit_assign" /\ Len(op.rhs) # op.len) =>
        /\ op.fault = "none"
        /\ op.rhs_after = op.rhs
        /\ \A p \in StoreBits(Min(op.len, Len(op.rhs))) :
               PhysBit(buffer, p) =
                   CombinedBit(op.kind, PhysBit(pre, p), StoreBit(op.rhs, p))
        /\ \A s \in Slots : s >= Min(op.len, Len(op.rhs)) => buffer[s] = pre[s]

C23_Witness ==
    /\ op.name = "bit_assign"
    /\ Len(op.rhs) >= 1
    /\ Len(op.rhs) < op.len
    /\ \A s \in 0 .. Len(op.rhs) - 1 : buffer[s] # pre[s]
    /\ \E s \in Len(op.rhs) .. op.len - 1 : pre[s] # ZERO /\ pre[s] # MAX
    /\ op.kind = "and"

(***************************************************************************)
(* SpecSplitBounds: a view is built by the checked constructor and split   *)
(* by split_at or split_at_mut at any index up to two past its size.       *)
(***************************************************************************)
NextSplitBounds ==
    \/ \E start \in 0 .. TotalBits, end \in 0 .. TotalBits, m \in BOOLEAN :
           New(start, end, m)
    \/ \E k \in 0 .. size(view) + 2 : SplitAt(k)
    \/ \E k \in 0 .. size(view) + 2 : SplitAtMut(k)

SpecSplitBounds == InitFilled /\ [][NextSplitBounds]_vars

\* C24: split_at(k) and split_at_mut(k) fault exactly when k > size; k = 0
\* and k = size are accepted and give an empty first half or an empty second
\* half, and the sizes of the two halves always sum to the original size.
C24_SplitFaultsExactlyPastSize ==
    op.name \in {"split_at", "split_at_mut"} =>
        /\ op.fault # "none" <=> op.bit_index > size(view)
        /\ op.fault = "none" =>
               /\ Len(halves) = 2
               /\ size(halves[1]) + size(halves[2]) = size(view)
               /\ op.bit_index = 0 => size(halves[1]) = 0
               /\ op.bit_index = size(view) => size(halves[2]) = 0

C24_Witness ==
    /\ op.name = "split_at_mut"
    /\ op.fault = "none"
    /\ op.bit_index = size(view)
    /\ size(view) > BIT_COUNT
    /\ view.first_bit_offset # 0
    /\ size(halves[1]) = size(view)
    /\ size(halves[2]) = 0

(***************************************************************************)
(* SpecRange: a view with first-bit offset 0 is built by the checked       *)
(* constructor over any content and find_next_in_range is run on a range   *)
(* inside it.                                                              *)
(***************************************************************************)
\* view.find_next_in_range::<CLEAR_BIT>(start .. end)
FindNextInRange(CLEAR_BIT, start, end) ==
    /\ Built
    /\ op' = [name |-> "find_next_in_range", clear |-> CLEAR_BIT,
              start |-> start, end |-> end,
              res |-> find_next_in_range(view, buffer, CLEAR_BIT, start, end)]
    /\ UNCHANGED <<buffer, pre, view, halves>>

NextRange ==
    \/ \E slot \in 0 .. NumWords, end \in 0 .. TotalBits :
           New(slot * BIT_COUNT, end, FALSE)
    \/ \E c \in BOOLEAN, start \in 0 .. size(view), end \in 0 .. size(view) :
           start <= end /\ FindNextInRange(c, start, end)

SpecRange == InitAny /\ [][NextRange]_vars

\* The indices of [start, end) whose bit has the target polarity.
MatchingIn(v, buf, CLEAR_BIT, start, end) ==
    {i \in start .. end - 1 : ViewBit(v, buf, i) = ~CLEAR_BIT}

\* C25: on a view whose first-bit offset is 0 and a range lo..hi with
\* lo < hi <= size, find_next_in_range returns exactly the least index in
\* [lo, hi) whose bit has the target polarity, or None if there is none.
C25_FindInRangeIsLeastMatchAtOffsetZero ==
    (/\ op.name = "find_next_in_range"
     /\ view.first_bit_offset = 0
     /\ op.start < op.end
     /\ op.end <= size(view)) =>
        /\ op.res.fault = "none"
        /\ IF MatchingIn(view, buffer, op.clear, op.start, op.end) = {}
           THEN ~op.res.some
           ELSE /\ op.res.some
                /\ op.res.val =
                       Least(MatchingIn(view, buffer, op.clear, op.start, op.end))

\* A range inside one word with a matching bit just below it and another
\* just above it, and no hit.
C25_Witness ==
    /\ op.name = "find_next_in_range"
    /\ view.first_bit_offset = 0
    /\ op.start % BIT_COUNT # 0
    /\ op.start < op.end
    /\ op.end < size(view)
    /\ op.end % BIT_COUNT # 0
    /\ ViewBit(view, buffer, op.start - 1) = ~op.clear
    /\ ViewBit(view, buffer, op.end) = ~op.clear
    /\ op.res.fault = "none"
    /\ ~op.res.some

(***************************************************************************)
(* What a call touches: the words it reads or writes, as slots counted     *)
(* from the view's buffer address, and the arguments it passes to          *)
(* create_bit_mask (bit_index) and create_range_mask (<<start_bit,         *)
(* bit_count>>).  Each operator follows the control flow of the operation  *)
(* it is named after.                                                      *)
(***************************************************************************)
Access(slots, bit_masks, range_masks) ==
    [slots |-> slots, bit_masks |-> bit_masks, range_masks |-> range_masks]

NoAccess == Access({}, {}, {})

Both(a, b) ==
    Access(a.slots \cup b.slots, a.bit_masks \cup b.bit_masks,
           a.range_masks \cup b.range_masks)

get_bit_trace(v, bit_index) ==
    IF translate_bit_index(v, bit_index).fault # "none" THEN NoAccess
    ELSE Access({translate_bit_index(v, bit_index).slot},
                {translate_bit_index(v, bit_index).offset}, {})

modify_bit_trace(v, bit_index) ==
    IF translate_bit_index(v, bit_index).fault # "none" THEN NoAccess
    ELSE Access({translate_bit_index(v, bit_index).slot},
                {translate_bit_index(v, bit_index).offset}, {})

RECURSIVE modify_range_loop_trace(_, _, _, _, _)
modify_range_loop_trace(v, slot, current_offset, current_count, remaining) ==
    IF remaining >= current_count
    THEN IF ~InBuffer(v, slot) THEN Access({slot}, {}, {})
         ELSE Both(Access({slot}, {}, {}),
                   modify_range_loop_trace(v, slot + 1, 0, BIT_COUNT,
                                           remaining - current_count))
    ELSE IF remaining # 0
    THEN Access({slot}, {}, {<<current_offset, remaining>>})
    ELSE NoAccess

modify_bit_range_trace(v, start, end) ==
    IF range_is_empty(start, end) THEN NoAccess
    ELSE IF (start >= size(v)) \/ (end > size(v)) THEN NoAccess
    ELSE Both(Access({}, {}, {<<translate_bit_index(v, start).offset,
                                BIT_COUNT - translate_bit_index(v, start).offset>>}),
              modify_range_loop_trace(v, translate_bit_index(v, start).slot,
                  translate_bit_index(v, start).offset,
                  BIT_COUNT - translate_bit_index(v, start).offset,
                  range_len(start, end)))

\* The word the scan loop tests against zero.
current_bits(read, CLEAR_BIT, first, starting_offset) ==
    IF first
    THEN IF CLEAR_BIT
         THEN BitNot(BitOr(read, create_range_mask(0, starting_offset)))
         ELSE BitAnd(read, BitNot(create_range_mask(0, starting_offset)))
    ELSE IF CLEAR_BIT THEN BitNot(read) ELSE read

RECURSIVE find_scan_trace(_, _, _, _, _, _, _)
find_scan_trace(v, buf, CLEAR_BIT, current_slot, starting_slot, starting_offset, ending_slot) ==
    IF ~(current_slot < ending_slot) THEN NoAccess
    ELSE IF ~InBuffer(v, current_slot) THEN Access({current_slot}, {}, {})
    ELSE IF current_bits(buf[v.addr + current_slot], CLEAR_BIT,
                         current_slot = starting_slot, starting_offset) # ZERO
    THEN Access({current_slot}, {},
                IF current_slot = starting_slot
                THEN {<<0, starting_offset>>} ELSE {})
    ELSE Both(Access({current_slot}, {},
                     IF current_slot = starting_slot
                     THEN {<<0, starting_offset>>} ELSE {}),
              find_scan_trace(v, buf, CLEAR_BIT, current_slot + 1,
                              starting_slot, starting_offset, ending_slot))

find_next_in_range_trace(v, buf, CLEAR_BIT, start, end) ==
    IF range_is_empty(start, end) THEN NoAccess
    ELSE IF (end - start) > size(v) THEN NoAccess
    ELSE IF translate_bit_index(v, start).fault # "none" THEN NoAccess
    ELSE find_scan_trace(v, buf, CLEAR_BIT,
                         translate_bit_index(v, start).slot,
                         translate_bit_index(v, start).slot,
                         translate_bit_index(v, start).offset,
                         div_ceil(end + v.first_bit_offset, BIT_COUNT))

\* The second search of a capped range query, made when the first one
\* returned first_bit.
second_search_trace(v, buf, CLEAR_BIT, first_bit, maximum_run_length, build) ==
    IF build = "debug"
       /\ (Overflows(size(v) - first_bit) \/ Overflows(first_bit + 1)
              \/ Overflows(first_bit + Min(maximum_run_length,
                                           Wrap(size(v) - first_bit))))
    THEN NoAccess
    ELSE find_next_in_range_trace(v, buf, ~CLEAR_BIT, Wrap(first_bit + 1),
             Wrap(first_bit + Min(maximum_run_length,
                                  Wrap(size(v) - first_bit))))

find_next_range_from_capped_trace(v, buf, CLEAR_BIT, starting_bit, maximum_run_length, build) ==
    IF find_next_in_range(v, buf, CLEAR_BIT, starting_bit, size(v)).some
    THEN Both(find_next_in_range_trace(v, buf, CLEAR_BIT, starting_bit, size(v)),
              second_search_trace(v, buf, CLEAR_BIT,
                  find_next_in_range(v, buf, CLEAR_BIT, starting_bit, size(v)).val,
                  maximum_run_length, build))
    ELSE find_next_in_range_trace(v, buf, CLEAR_BIT, starting_bit, size(v))

(***************************************************************************)
(* SpecAccess: a view is built by the checked constructor and one          *)
(* operation is run on it, recording what it touched.                      *)
(***************************************************************************)
\* view.get_bit(bit_index)
AccessGetBit(bit_index) ==
    /\ Built
    /\ op' = [name |-> "access", call |-> "get_bit",
              fault |-> get_bit(view, buffer, bit_index).fault,
              trace |-> get_bit_trace(view, bit_index)]
    /\ UNCHANGED <<buffer, pre, view, halves>>

\* view.set_bit(i) / clear_bit(i) / toggle_bit(i)
AccessModifyBit(operation, bit_index) ==
    /\ Built
    /\ view.mutable
    /\ buffer' = modify_bit(view, buffer, bit_index, operation).buf
    /\ op' = [name |-> "access", call |-> "modify_bit",
              fault |-> modify_bit(view, buffer, bit_index, operation).fault,
              trace |-> modify_bit_trace(view, bit_index)]
    /\ UNCHANGED <<pre, view, halves>>

\* view.set_bit_range(r) / clear_bit_range(r) / toggle_bit_range(r)
AccessModifyBitRange(operation, start, end) ==
    /\ Built
    /\ view.mutable
    /\ buffer' = modify_bit_range(view, buffer, start, end, operation).buf
    /\ op' = [name |-> "access", call |-> "modify_bit_range",
              start |-> start, end |-> end,
              fault |-> modify_bit_range(view, buffer, start, end, operation).fault,
              trace |-> modify_bit_range_trace(view, start, end)]
    /\ UNCHANGED <<pre, view, halves>>

\* view.find_next_set_from(starting_bit) / find_next_clear_from
AccessFindNextFrom(CLEAR_BIT, starting_bit) ==
    /\ Built
    /\ op' = [name |-> "access", call |-> "find_next_from",
              fault |-> find_next_in_range(view, buffer, CLEAR_BIT,
                                           starting_bit, size(view)).fault,
              trace |-> find_next_in_range_trace(view, buffer, CLEAR_BIT,
                                                 starting_bit, size(view))]
    /\ UNCHANGED <<buffer, pre, view, halves>>

\* view.find_next_set_range_from_capped(starting_bit, cap) / ..clear..,
\* and the uncapped queries with cap = usize::MAX
AccessFindNextRangeFromCapped(CLEAR_BIT, starting_bit, cap, build) ==
    /\ Built
    /\ op' = [name |-> "access", call |-> "find_next_range_from_capped",
              fault |-> range_from_capped(view, buffer, CLEAR_BIT,
                                          starting_bit, cap, build).fault,
              trace |-> find_next_range_from_capped_trace(view, buffer,
                            CLEAR_BIT, starting_bit, cap, build)]
    /\ UNCHANGED <<buffer, pre, view, halves>>

NextAccess ==
    \/ \E start \in 0 .. TotalBits, end \in 0 .. TotalBits : New(start, end, TRUE)
    \/ \E i \in 0 .. size(view) + 1 : AccessGetBit(i)
    \/ \E o \in Operations, i \in 0 .. size(view) + 1 : AccessModifyBit(o, i)
    \/ \E o \in Operations, start \in 0 .. size(view) + 1,
          end \in 0 .. size(view) + 1 :
           start <= end /\ AccessModifyBitRange(o, start, end)
    \/ \E c \in BOOLEAN, sb \in 0 .. size(view) : AccessFindNextFrom(c, sb)
    \/ \E c \in BOOLEAN, sb \in 0 .. size(view), cap \in Caps \cup {USIZE_MAX},
          build \in Builds :
           AccessFindNextRangeFromCapped(c, sb, cap, build)

SpecAccess == InitPatterns /\ [][NextAccess]_vars

\* The number of words view v covers.
CoveringWords(v) ==
    (v.first_bit_offset + size(v) + BIT_COUNT - 1) \div BIT_COUNT

\* C26: on a view built by the checked constructor, every non-faulting
\* get_bit, single-bit mutation, range mutation and search reads or writes
\* only the view's covering words, the slots 0 .. ceil((offset + size) / W) - 1,
\* and no call touches a word outside the buffer.
C26_AccessesStayInCoveringWords ==
    op.name = "access" =>
        /\ op.fault # "oob"
        /\ op.fault = "none" =>
               op.trace.slots \subseteq 0 .. CoveringWords(view) - 1

\* A range mutation that ends exactly on a word boundary, with another word
\* of the buffer after it.
C26_Witness ==
    /\ op.name = "access"
    /\ op.call = "modify_bit_range"
    /\ op.fault = "none"
    /\ op.start < op.end
    /\ op.end = size(view)
    /\ (op.end + view.first_bit_offset) % BIT_COUNT = 0
    /\ view.addr + CoveringWords(view) \in Slots
    /\ CoveringWords(view) - 1 \in op.trace.slots
    /\ buffer # pre

\* C28: in every call made by get_bit, modify_bit, modify_bit_range and
\* find_next_in_range on a valid view, create_bit_mask receives
\* bit_index < W and create_range_mask receives start_bit < W and
\* start_bit + bit_count <= W.
C28_MaskArgumentsFitTheWord ==
    op.name = "access" =>
        /\ \A bit_index \in op.trace.bit_masks :
               bit_index >= 0 /\ bit_index < BIT_COUNT
        /\ \A m \in op.trace.range_masks :
               /\ m[1] >= 0
               /\ m[2] >= 0
               /\ m[1] < BIT_COUNT
               /\ m[1] + m[2] <= BIT_COUNT

\* A range mutation with a partial first word and a partial last word.
C28_Witness ==
    /\ op.name = "access"
    /\ op.call = "modify_bit_range"
    /\ op.fault = "none"
    /\ \E m \in op.trace.range_masks : m[1] > 0 /\ m[1] + m[2] = BIT_COUNT
    /\ \E m \in op.trace.range_masks : m[1] = 0 /\ m[2] > 0 /\ m[2] < BIT_COUNT
    /\ Cardinality(op.trace.slots) >= 2

\* C27: in the set-bit iterator every run (start, count) taken from the inner
\* run iterator has count # 0, on every view and bit pattern, so the debug
\* assertion on the count never fails.
C27_RunsTakenAreNonEmpty ==
    op.name = "iter" =>
        /\ op.kind = "runs" =>
               \A k \in 1 .. Len(op.yielded) : op.yielded[k][2] # 0
        /\ op.kind = "bits" =>
               ~(op.fault = "panic" /\ op.it.last_some /\ op.it.last_count = 0)

(***************************************************************************)
(* Sub-slicing an owning bitmap.  Bitmap::subslice and subslice_mut call   *)
(* the checked constructor on the store; the slice's own subslice and      *)
(* subslice_mut are reached through as_slice and as_slice_mut.             *)
(***************************************************************************)
bitmap_subslice(buffer_len, start, end) ==
    new(buffer_len, start, end, FALSE)

bitmap_subslice_mut(buffer_len, start, end) ==
    new(buffer_len, start, end, TRUE)

\* bitmap.as_slice().subslice(start .. end)
subslice_of_as_slice(buffer_len, start, end) ==
    IF as_slice(buffer_len).fault # "none" THEN as_slice(buffer_len)
    ELSE subslice(as_slice(buffer_len).view, start, end)

\* bitmap.as_slice_mut().subslice_mut(start .. end)
subslice_mut_of_as_slice_mut(buffer_len, start, end) ==
    IF as_slice_mut(buffer_len).fault # "none" THEN as_slice_mut(buffer_len)
    ELSE subslice_mut(as_slice_mut(buffer_len).view, start, end)

\* bitmap.subslice(r) next to bitmap.as_slice().subslice(r), or the two
\* mutable calls.
BitmapSubslice(mut, start, end) ==
    /\ Owned
    /\ op' = [name |-> "bitmap_subslice", mut |-> mut, len |-> op.len,
              start |-> start, end |-> end,
              direct |-> IF mut THEN bitmap_subslice_mut(op.len, start, end)
                         ELSE bitmap_subslice(op.len, start, end),
              via |-> IF mut
                      THEN subslice_mut_of_as_slice_mut(op.len, start, end)
                      ELSE subslice_of_as_slice(op.len, start, end)]
    /\ UNCHANGED <<buffer, pre, view, halves>>

(***************************************************************************)
(* SpecBitmapSubslice: an owning bitmap of pattern words is sub-sliced     *)
(* both ways with any range up to one past the buffer.                     *)
(***************************************************************************)
NextBitmapSubslice ==
    \/ \E len \in StoreLens : BitmapNew(len)
    \/ \E mut \in BOOLEAN, start \in 0 .. TotalBits + 1,
          end \in 0 .. TotalBits + 1 :
           BitmapSubslice(mut, start, end)

SpecBitmapSubslice == InitPatterns /\ [][NextBitmapSubslice]_vars

\* C29: for every bitmap and range r, Bitmap::subslice(r) and
\* Bitmap::as_slice().subslice(r) either both fault or both return views of
\* the same size and the same bits (likewise for the mutable pair).
C29_BitmapSubsliceDelegates ==
    op.name = "bitmap_subslice" =>
        /\ op.direct.fault = "none" <=> op.via.fault = "none"
        /\ (op.direct.fault = "none" /\ op.via.fault = "none") =>
               /\ size(op.direct.view) = size(op.via.view)
               /\ PhysRange(op.direct.view) \subseteq 0 .. TotalBits - 1
               /\ PhysRange(op.via.view) \subseteq 0 .. TotalBits - 1
               /\ \A i \in 0 .. size(op.direct.view) - 1 :
                      ViewBit(op.direct.view, buffer, i) =
                          ViewBit(op.via.view, buffer, i)

(***************************************************************************)
(* The allocator loop on an owning bitmap:                                 *)
(*     while let Some((s, n)) = bitmap.find_first_clear_range() {          *)
(*         bitmap.set_bit_range(s .. s + n);                               *)
(*     }                                                                   *)
(* One step is one evaluation of the loop condition followed, when a run   *)
(* was returned, by the body.  op.claimed lists the runs set so far and    *)
(* pre is the buffer before the step.                                      *)
(***************************************************************************)
\* Bitmap::set_bit_range
bitmap_set_bit_range(buffer_len, buf, start, end) ==
    IF as_slice_mut(buffer_len).fault # "none"
    THEN [fault |-> as_slice_mut(buffer_len).fault, buf |-> buf]
    ELSE modify_bit_range(as_slice_mut(buffer_len).view, buf, start, end, "Set")

\* The state of the loop after a step that found run r and set it.
AllocClaimed(len, build, claimed, r, w) ==
    [name |-> "alloc", len |-> len, build |-> build,
     claimed |-> Append(claimed, <<r.start, r.len>>),
     done |-> FALSE, fault |-> w.fault]

\* The state of the loop after a step whose search returned None or faulted.
AllocEnded(len, build, claimed, r) ==
    [name |-> "alloc", len |-> len, build |-> build, claimed |-> claimed,
     done |-> r.fault = "none", fault |-> r.fault]

\* One step of the loop: the search and, if it returned a run, the body.
AllocIteration(len, build, claimed) ==
    \E r \in {bitmap_find_first_clear_range(len, buffer, build)} :
        IF r.fault = "none" /\ r.some
        THEN \E w \in {bitmap_set_bit_range(len, buffer, r.start,
                                            r.start + r.len)} :
                 /\ buffer' = w.buf
                 /\ op' = AllocClaimed(len, build, claimed, r, w)
        ELSE /\ buffer' = buffer
             /\ op' = AllocEnded(len, build, claimed, r)

\* The first step of the loop on a new bitmap.
AllocFirst(build) ==
    /\ Owned
    /\ AllocIteration(op.len, build, <<>>)
    /\ pre' = buffer
    /\ UNCHANGED <<view, halves>>

\* A later step of the loop.
AllocStep ==
    /\ op.name = "alloc"
    /\ ~op.done
    /\ op.fault = "none"
    /\ AllocIteration(op.len, op.build, op.claimed)
    /\ pre' = buffer
    /\ UNCHANGED <<view, halves>>

(***************************************************************************)
(* SpecAlloc: the allocator loop on an owning bitmap over any content.     *)
(* The loop is sequential code, so a step that can be taken is taken.      *)
(***************************************************************************)
NextAlloc ==
    \/ \E len \in StoreLens : BitmapNew(len)
    \/ \E build \in Builds : AllocFirst(build)
    \/ AllocStep

SpecAlloc == InitAny /\ [][NextAlloc]_vars /\ WF_vars(NextAlloc)

\* The number of clear bits of a bitmap of buffer_len words.
ClearCount(buf, buffer_len) ==
    Cardinality({p \in StoreBits(buffer_len) : ~PhysBit(buf, p)})

\* The bits of run k of the claimed runs.
ClaimedBits(k) == op.claimed[k][1] .. op.claimed[k][1] + op.claimed[k][2] - 1

\* What holds after every step of the loop.
AllocStepIsSound ==
    op.name = "alloc" =>
        /\ op.fault = "none"
        /\ \A s \in Slots : s >= op.len => buffer[s] = pre[s]
        /\ \A k \in 1 .. Len(op.claimed) :
               /\ op.claimed[k][2] >= 1
               /\ ClaimedBits(k) \subseteq StoreBits(op.len)
               /\ \A j \in 1 .. Len(op.claimed) :
                      j # k => ClaimedBits(j) \cap ClaimedBits(k) = {}
        /\ ~op.done =>
               /\ Len(op.claimed) >= 1
               /\ \A p \in StoreBits(op.len) :
                      IF p \in ClaimedBits(Len(op.claimed))
                      THEN ~PhysBit(pre, p) /\ PhysBit(buffer, p)
                      ELSE PhysBit(buffer, p) = PhysBit(pre, p)
               /\ ClearCount(buffer, op.len) < ClearCount(pre, op.len)
        /\ op.done =>
               /\ buffer = pre
               /\ \A p \in StoreBits(op.len) : PhysBit(buffer, p)

AllocEnds == op.name = "alloc" /\ op.done

\* C30: in the allocator loop on an owning bitmap, from any content, every
\* step sets only bits that were clear, the claimed runs are pairwise
\* disjoint and inside the bitmap, the number of clear bits strictly
\* decreases at each step, and the loop ends after finitely many steps, with
\* find_first_clear_range() = None exactly when every bit is set.
C30_AllocatorLoopFillsAndEnds ==
    []AllocStepIsSound /\ <>AllocEnds

\* The loop has ended after claiming three separate runs.
C30_Witness ==
    /\ op.name = "alloc"
    /\ op.done
    /\ op.len = NumWords
    /\ Len(op.claimed) >= 3
    /\ \A p \in StoreBits(op.len) : PhysBit(buffer, p)

=============================================================================
